---- MODULE Spec2Model ----
(***************************************************************************)
(* Polling data-reconciliation layer of nebulaguard-console:               *)
(*   - safeParseResponse / safeParseBody       (src/src/lib/safeFetch.ts)  *)
(*   - useVeeamBackupAndReplication            (src/src/hooks/...)         *)
(*   - useGlobalInfrastructureMetrics          (src/unnamed/part_006)      *)
(*   - useOrganizationVeeamMetrics             (src/unnamed/part_006)      *)
(* Each component has its own specification over the shared variables.     *)
(***************************************************************************)
EXTENDS Integers, Sequences, FiniteSets, TLC

VARIABLES
    \* ---- safeFetch.ts ----
    response,      \* the Response handed to safeParseResponse
    result,        \* what safeParseResponse resolved to (Pending before the call)
    \* ---- useVeeamBackupAndReplication ----
    phase,         \* "constructed" (first render, effects not run), "mounted", "unmounted"
    intervalRef,   \* "none", "set" (timer running) or "cleared"
    jobs,          \* useState: the published, sorted job objects
    jobsMapRef,    \* useRef: the merge working set, a Map in insertion order
    loading,
    error,
    isConnected,
    lastUpdated,
    now,           \* the wall clock read by Date.now() and new Date(), in ms,
                   \* seen at the interval's ticks
    fetches,       \* calls of fetchJobs suspended at an await
    started,       \* number of fetchJobs calls so far
    lastApplied,   \* history: start number of the call that wrote the state last
    heldPayload,   \* history: the payload of the last successful poll
    prevJobsMap,   \* history: the working set that poll was merged into
    lastOutcome,   \* history: "none", or "ok" / "failed" for the call that settled last
    \* ---- useGlobalInfrastructureMetrics ----
    gPhase,        \* "constructed", "mounted", "unmounted"
    gIntervalRef,  \* "none", "set" or "cleared"
    abortRef,      \* 0 (null) or the number of the cycle whose AbortController it holds
    orgMetricsMap, \* useState: clientId -> counters
    gLoading,
    gError,
    gLastUpdated,
    gNow,          \* the wall clock in ms, seen at the interval's ticks
    cycles,        \* calls of fetchAll suspended at an await
    gStarted,      \* number of fetchAll calls that passed the guard so far
    gLastApplied,  \* history: number of the cycle that wrote the state last
    gLastOutcome,  \* history: how the five requests of the cycle that settled last ended
    \* ---- useOrganizationVeeamMetrics ----
    oPhase,        \* "constructed", "mounted", "unmounted"
    oIntervalRef,  \* "none", "set" or "cleared"
    oLoading,
    oError,
    oLastUpdated,
    oNow,          \* the wall clock in ms, seen at the interval's ticks
    brData,        \* useState: which call's Backup & Replication answer is held
    infraVMs,      \* useState: which call's VM list is held
    jarvisItems,   \* useState: which call's Jarvis items are held
    oFetches,      \* calls of fetchAll suspended at an await
    oStarted,      \* number of fetchAll calls that passed the guard so far
    oLastOutcome,  \* history: how the three requests of the call that settled last ended
    \* ---- usePaginatedList, as one tab of useOrganizationVeeamMetrics uses it ----
    tabItems,      \* length of the tab's collection (brData.matched, infraVMs, jarvisItems)
    tabFilter,     \* the tab's search text and filter selections, as one value
    currentPage,   \* useState of usePaginatedList
    tabEffects,    \* the effects whose dependencies changed in the render just committed
    tabLastOp,     \* history: the last event, its argument, and currentPage before it
    \* ---- HostsDrilldown / UsersDrilldown ----
    dItems,        \* length of the hosts / users prop
    dFilter,       \* filter and searchQuery, as one value
    dCurrentPage,  \* useState of the component
    dEffects       \* the effects whose dependencies changed in the render just committed

decoderVars == <<response, result>>
veeamVars == <<phase, intervalRef, jobs, jobsMapRef, loading, error, isConnected,
               lastUpdated, now, fetches, started, lastApplied, heldPayload,
               prevJobsMap, lastOutcome>>
globalVars == <<gPhase, gIntervalRef, abortRef, orgMetricsMap, gLoading, gError,
                gLastUpdated, gNow, cycles, gStarted, gLastApplied, gLastOutcome>>
orgVars == <<oPhase, oIntervalRef, oLoading, oError, oLastUpdated, oNow, brData,
             infraVMs, jarvisItems, oFetches, oStarted, oLastOutcome>>
tabVars == <<tabItems, tabFilter, currentPage, tabEffects, tabLastOp>>
drillVars == <<dItems, dFilter, dCurrentPage, dEffects>>
uiVars == <<tabVars, drillVars>>
vars == <<decoderVars, veeamVars, globalVars, orgVars, uiVars>>

\* JavaScript null / undefined (of a string-valued slot)
Null == "null"
Undefined == "undefined"

\* null data of a decoded body, and the null (falsy) parseError
NullData == [kind |-> "null", text |-> <<>>]
NoError == <<>>

\* a Date | null slot holding null
NullDate == -1

\* result before safeParseResponse has been called
Pending == [pending |-> TRUE]

(***************************************************************************)
(* safeFetch.ts                                                            *)
(***************************************************************************)

\* ---- bounds of the decoder's inputs ----
MaxBodyLen == 3

\* Characters a body is made of: JSON punctuation, a digit, white space and a
\* letter that is no JSON token.
BodyChars == {"[", "]", "{", "}", "1", " ", "x"}

RECURSIVE SeqsUpTo(_, _)
SeqsUpTo(S, n) ==
    IF n = 0 THEN {<<>>}
    ELSE LET shorter == SeqsUpTo(S, n - 1)
         IN  shorter \cup {Append(s, c) : s \in {t \in shorter : Len(t) = n - 1}, c \in S}

\* Lengths at which safeParseBody and safeParseResponse cut the body they log.
SnippetLen == 200
DebugBodyLen == 300

\* Malformed JSON as long as the debug snippet, and one character longer.
LongBody(n) == [i \in 1..n |-> IF i = 1 THEN "{" ELSE "x"]
LongBodies == {LongBody(SnippetLen), LongBody(SnippetLen + 1)}

Bodies == SeqsUpTo(BodyChars, MaxBodyLen) \cup LongBodies

Statuses == {199, 200, 204, 299, 300, 401, 404, 500}
ContentLengths == {"0", Null}          \* headers.get("content-length")
ContentTypes == {"application/json", "application/json; charset=utf-8", "text/plain", Null}
Urls == {"", "https://n8n/webhook/x"}

\* A fetched Response together with the url argument of safeParseResponse.
\* readFails: response.text() rejects (stream error, body already used).
\* fetchError: the message of the error fetch() rejected with, Null when it
\* resolved to a Response.
Responses ==
    [status : Statuses, contentLength : ContentLengths, contentType : ContentTypes,
     body : Bodies, readFails : BOOLEAN, url : Urls, fetchError : {Null}]

\* A fetch() that rejected: there is no Response, the caller holds err and url.
ErrMessages == {"Failed to fetch", "The operation was aborted."}
FetchErrors ==
    [status : {0}, contentLength : {Null}, contentType : {Null},
     body : {<<>>}, readFails : {FALSE}, url : Urls, fetchError : ErrMessages]

\* Response.ok
ResponseOk(r) == r.status >= 200 /\ r.status <= 299

friendlyMessages ==
    [network |-> "Network error. Please check your connection and try again.",
     timeout |-> "The request timed out. Please try again.",
     unauthorized |-> "Your session has expired. Please log in again.",
     forbidden |-> "You don't have permission to access this resource.",
     notFound |-> "The requested resource was not found.",
     server |-> "Service is temporarily unavailable. Please try again later.",
     parse |-> "We received an unexpected response. Please try again.",
     empty |-> "No data available yet.",
     default |-> "Something went wrong. Please try again."]

getUserMessage(status, isParseError, isEmpty) ==
    IF isEmpty THEN friendlyMessages.empty
    ELSE IF isParseError THEN friendlyMessages.parse
    ELSE IF status = 0 THEN friendlyMessages.network
    ELSE IF status = 401 THEN friendlyMessages.unauthorized
    ELSE IF status = 403 THEN friendlyMessages.forbidden
    ELSE IF status = 404 THEN friendlyMessages.notFound
    ELSE IF status = 408 THEN friendlyMessages.timeout
    ELSE IF status >= 500 THEN friendlyMessages.server
    ELSE friendlyMessages.default

\* ---- String helpers (text is a sequence of one-character strings) ----
RECURSIVE TrimStart(_)
TrimStart(s) ==
    IF s # <<>> /\ Head(s) = " " THEN TrimStart(Tail(s)) ELSE s

RECURSIVE TrimEnd(_)
TrimEnd(s) ==
    IF s # <<>> /\ s[Len(s)] = " " THEN TrimEnd(SubSeq(s, 1, Len(s) - 1)) ELSE s

Trim(s) == TrimEnd(TrimStart(s))

StartsWith(s, c) == s # <<>> /\ Head(s) = c

Slice(s, n) == IF Len(s) > n THEN SubSeq(s, 1, n) ELSE s

\* ---- JSON.parse over BodyChars ----
\* value := number | array | object ; number := "1"+ ;
\* array := "[" ws (value ws)? "]"   (the alphabet has no comma)
\* object := "{" ws "}"              (the alphabet has no string for a key)
\* The parsed value is kept as its canonical text, i.e. JSON.stringify of it.
ParseFail == [ok |-> FALSE, rest |-> <<>>, canon |-> <<>>]

RECURSIVE ParseDigits(_, _)
ParseDigits(s, acc) ==
    IF s # <<>> /\ Head(s) = "1" THEN ParseDigits(Tail(s), Append(acc, "1"))
    ELSE [ok |-> TRUE, rest |-> s, canon |-> acc]

RECURSIVE ParseValue(_)
ParseValue(s0) ==
    LET s == TrimStart(s0) IN
    IF s = <<>> THEN ParseFail
    ELSE IF Head(s) = "1" THEN ParseDigits(s, <<>>)
    ELSE IF Head(s) = "{" THEN
        LET t == TrimStart(Tail(s)) IN
        IF StartsWith(t, "}") THEN [ok |-> TRUE, rest |-> Tail(t), canon |-> <<"{", "}">>]
        ELSE ParseFail
    ELSE IF Head(s) = "[" THEN
        LET t == TrimStart(Tail(s)) IN
        IF StartsWith(t, "]") THEN [ok |-> TRUE, rest |-> Tail(t), canon |-> <<"[", "]">>]
        ELSE LET v == ParseValue(t) IN
             IF ~v.ok THEN ParseFail
             ELSE LET u == TrimStart(v.rest) IN
                  IF StartsWith(u, "]")
                  THEN [ok |-> TRUE, rest |-> Tail(u), canon |-> <<"[">> \o v.canon \o <<"]">>]
                  ELSE ParseFail
    ELSE ParseFail

\* JSON.parse(text): [ok, value]; ok = FALSE stands for the SyntaxError thrown.
JSONParse(text) ==
    LET v == ParseValue(text) IN
    IF v.ok /\ TrimStart(v.rest) = <<>>
    THEN [ok |-> TRUE, value |-> [kind |-> "json", text |-> v.canon]]
    ELSE [ok |-> FALSE, value |-> NullData]

\* JSON.stringify(data) for the data safeParseBody can return.
JSONStringify(data) ==
    IF data = NullData THEN <<"n", "u", "l", "l">>
    ELSE IF data.kind = "json" THEN data.text
    ELSE <<"\"">> \o data.text \o <<"\"">>

\* ---- safeParseBody ----

Thrown == [threw |-> TRUE]

\* The catch block of the try around response.text() (lines 79-83).
\* A variant in which the rejection of response.text() is not caught.
ReadFailedUncaught(r) == Thrown

ReadFailed(r) ==
    [threw |-> FALSE, data |-> NullData, isEmpty |-> TRUE,
     parseError |-> <<"Could not read response body">>]

\* contentType.includes("application/json")
IncludesJson(ct) == ct \in {"application/json", "application/json; charset=utf-8"}

\* A catch block that keeps no snippet of the body.
SnippetNone(text) == <<>>

\* line 96: text.length > 200 ? text.slice(0, 200) + "…" : text
Snippet(text) ==
    IF Len(text) > SnippetLen THEN SubSeq(text, 1, SnippetLen) \o <<"...">> ELSE text

safeParseBody(r) ==
    IF r.status = 204 \/ r.contentLength = "0"
    THEN [threw |-> FALSE, data |-> NullData, isEmpty |-> TRUE, parseError |-> NoError]
    ELSE IF r.readFails THEN ReadFailed(r)
    ELSE LET text == r.body IN
    IF Len(text) = 0 \/ Len(Trim(text)) = 0
    THEN [threw |-> FALSE, data |-> NullData, isEmpty |-> TRUE, parseError |-> NoError]
    ELSE IF IncludesJson(r.contentType)
            \/ StartsWith(Trim(text), "{") \/ StartsWith(Trim(text), "[")
    THEN LET p == JSONParse(text) IN
         IF p.ok
         THEN [threw |-> FALSE, data |-> p.value, isEmpty |-> FALSE, parseError |-> NoError]
         ELSE LET snippet == Snippet(text)
              IN  [threw |-> FALSE, data |-> NullData, isEmpty |-> FALSE,
                   parseError |-> <<"JSON parse error: ", "SyntaxError", ". Body snippet: ">>
                                  \o snippet]
    ELSE [threw |-> FALSE, data |-> [kind |-> "text", text |-> text],
          isEmpty |-> FALSE, parseError |-> NoError]

\* ---- safeParseResponse ----
Success(data, status) == [threw |-> FALSE, ok |-> TRUE, data |-> data, status |-> status]
\* A Failure whose userMessage is its technical detail.
FailureLeaking(status, userMessage, debug) ==
    [threw |-> FALSE, ok |-> FALSE, data |-> NullData, status |-> status,
     userMessage |-> debug, debug |-> debug]

Failure(status, userMessage, debug) ==
    [threw |-> FALSE, ok |-> FALSE, data |-> NullData, status |-> status,
     userMessage |-> userMessage, debug |-> debug]

\* A variant that looks at the body outcome before the status.
safeParseResponseBodyFirst(r) ==
    LET b == safeParseBody(r) IN
    IF b.threw THEN Thrown
    ELSE IF b.parseError # NoError
    THEN Failure(r.status, getUserMessage(r.status, TRUE, FALSE), b.parseError)
    ELSE IF b.isEmpty THEN Success(NullData, r.status)
    ELSE IF ~ResponseOk(r)
    THEN Failure(r.status, getUserMessage(r.status, FALSE, FALSE), <<"HTTP ", r.status>>)
    ELSE Success(b.data, r.status)

safeParseResponse(r) ==
    LET b == safeParseBody(r) IN
    IF b.threw THEN Thrown     \* line 125: the await is not inside a try
    ELSE IF ~ResponseOk(r)
    THEN LET debug == <<"HTTP ", r.status, " from ", r.url, ". Body: ">>
                      \o (IF b.parseError # NoError THEN b.parseError
                          ELSE Slice(JSONStringify(b.data), DebugBodyLen))
         IN  Failure(r.status, getUserMessage(r.status, FALSE, FALSE), debug)
    ELSE IF b.parseError # NoError
    THEN Failure(r.status, getUserMessage(r.status, TRUE, FALSE), b.parseError)
    ELSE IF b.isEmpty THEN Success(NullData, r.status)
    ELSE Success(b.data, r.status)

\* ---- networkError (lines 163-174) ----
networkError(err, url) ==
    Failure(0, getUserMessage(0, FALSE, FALSE),
            <<"Network error for ", IF url = "" THEN "unknown URL" ELSE url, ": ", err>>)

\* What the caller of fetch() decodes: the Response, or the error fetch()
\* rejected with.
decode(r) ==
    IF r.fetchError # Null THEN networkError(r.fetchError, r.url) ELSE safeParseResponse(r)

(***************************************************************************)
(* useGlobalInfrastructureMetrics (src/unnamed/part_006)                   *)
(***************************************************************************)

\* ---- bounds ----
MaxCycles == 2       \* calls of fetchAll in one behaviour

\* ---- options ----
\* organizations: two tenants with a clientId, one without.
Organizations ==
    <<[id |-> "org-b", name |-> "Beta", clientId |-> 2, status |-> "active"],
      [id |-> "org-a", name |-> "Acme", clientId |-> 1, status |-> "active"],
      [id |-> "org-c", name |-> "Core", clientId |-> 0, status |-> "inactive"]>>

enabled == TRUE

REFRESH_INTERVAL_GLOBAL == 60000

\* useMemo, lines 609-620
clientIdToOrg ==
    [cid \in {Organizations[i].clientId : i \in {j \in 1..Len(Organizations) :
                                                   Organizations[j].clientId > 0}} |->
        Organizations[CHOOSE i \in 1..Len(Organizations) :
            /\ Organizations[i].clientId = cid
            /\ \A j \in (i + 1)..Len(Organizations) : Organizations[j].clientId # cid]]

orgsWithClientId == SelectSeq(Organizations, LAMBDA o : o.clientId > 0)

Sources == {"alerts", "hosts", "reports", "insights", "veeam"}

\* ---- webhook records: field values are JSON tokens ----
\* toNumber(v): Number(v) when finite, else 0
toNumber(v) ==
    CASE v = "1" -> 1
      [] v = "2" -> 2
      [] v = "9" -> 9
      [] v = "-1" -> 0 - 1
      [] OTHER -> 0

\* toNumber(obj?.client_id ?? obj?.clientId ?? 0)
getClientId(obj) ==
    IF "client_id" \in DOMAIN obj THEN toNumber(obj.client_id)
    ELSE IF "clientId" \in DOMAIN obj THEN toNumber(obj.clientId)
    ELSE 0

\* String(v ?? "").toLowerCase().trim()
normSev(v) ==
    CASE v = "Critical " -> "critical"
      [] v = "DISASTER" -> "disaster"
      [] OTHER -> v

\* String(overallStatus ?? "").toLowerCase()
StatusLower(v) ==
    CASE v = "Success" -> "success"
      [] v = "Failed" -> "failed"
      [] v = "Success with errors" -> "success with errors"
      [] OTHER -> v

\* status.includes(word) over the lower-cased statuses above
Includes(status, word) ==
    CASE word = "success" -> status \in {"success", "success with errors"}
      [] word = "fail" -> status \in {"failed"}
      [] word = "error" -> status \in {"success with errors"}
      [] OTHER -> FALSE

\* The array each webhook answers with when it answers well.
SourceData(src) ==
    CASE src = "alerts" ->
           <<[client_id |-> "1", acknowledged |-> FALSE, status |-> "active", severity |-> "Critical "],
             [clientId |-> "1", acknowledged |-> TRUE, status |-> "active", severity |-> "info"],
             [client_id |-> "2", acknowledged |-> FALSE, status |-> "resolved", severity |-> "DISASTER"],
             [client_id |-> "9", acknowledged |-> FALSE, status |-> "active", severity |-> "critical"]>>
      [] src = "hosts" ->
           <<[client_id |-> "1", status |-> "0"],
             [client_id |-> "1", status |-> "1"],
             [clientId |-> "2", status |-> "0"],
             [status |-> "0"]>>
      [] src = "reports" ->
           <<[client_id |-> "2"], [client_id |-> "2"], [client_id |-> "abc"]>>
      [] src = "insights" ->
           <<[client_id |-> "1"], [client_id |-> "-1"]>>
      [] OTHER ->
           \* parsed.data[0].matched
           <<[client_id |-> "1", jobs |-> <<"j1", "j2">>, overallStatus |-> "Success"],
             [client_id |-> "1", overallStatus |-> "Failed"],
             [client_id |-> "2", jobs |-> <<"j3">>, overallStatus |-> "Success with errors"],
             [client_id |-> "9", jobs |-> <<"j4">>, overallStatus |-> "Success"]>>

\* How one source of a cycle ends:
\*   "rejected"  post() resolved null (network error, abort)
\*   "http"      a response with !ok
\*   "parsefail" safeParseResponse returned ok = false (bad JSON, body read failed)
\*   "notarray"  decoded, but parsed.data is no array
\*   "data"      decoded to SourceData(src)
FailureKinds == {"rejected", "http", "parsefail", "notarray"}

\* The outcomes of the five requests of one cycle: any subset of the sources
\* answers well; the sources that fail in one cycle fail the same way.
CycleOutcomes ==
    {[src \in Sources |-> IF src \in ok THEN "data" ELSE kind] :
        ok \in SUBSET Sources, kind \in FailureKinds}

zeroEntry ==
    [alerts |-> 0, activeAlerts |-> 0, criticalAlerts |-> 0,
     hosts |-> 0, enabledHosts |-> 0,
     reports |-> 0, insights |-> 0,
     veeamJobs |-> 0, veeamSuccess |-> 0, veeamFailed |-> 0]

\* A cycle that starts from an empty Map.
initialMapEmpty == <<>>

\* lines 656-664
initialMap == [cid \in {orgsWithClientId[i].clientId : i \in 1..Len(orgsWithClientId)} |-> zeroEntry]

\* lines 666-675
ensureEntry(newMap, cid) ==
    IF cid \notin DOMAIN newMap /\ cid \in DOMAIN clientIdToOrg
    THEN [c \in DOMAIN newMap \cup {cid} |-> IF c = cid THEN zeroEntry ELSE newMap[c]]
    ELSE newMap

Bump(n, cond) == IF cond THEN n + 1 ELSE n

\* The forEach callbacks of lines 681-757, on the entry of the record's tenant
foldRecord(src, entry, rec) ==
    CASE src = "alerts" ->
           [entry EXCEPT
              !.alerts = @ + 1,
              !.activeAlerts = Bump(@, ~rec.acknowledged /\ rec.status # "resolved"),
              !.criticalAlerts = Bump(@, normSev(rec.severity) \in {"critical", "disaster"})]
      [] src = "hosts" ->
           [entry EXCEPT !.hosts = @ + 1, !.enabledHosts = Bump(@, rec.status = "0")]
      [] src = "reports" -> [entry EXCEPT !.reports = @ + 1]
      [] src = "insights" -> [entry EXCEPT !.insights = @ + 1]
      [] OTHER ->
           LET status == StatusLower(IF "overallStatus" \in DOMAIN rec
                                     THEN rec.overallStatus ELSE "")
           IN  [entry EXCEPT
                  !.veeamJobs = @ + (IF "jobs" \in DOMAIN rec THEN Len(rec.jobs) ELSE 0),
                  !.veeamSuccess = Bump(@, Includes(status, "success")),
                  !.veeamFailed = Bump(@, Includes(status, "fail") \/ Includes(status, "error"))]

RECURSIVE foldSource(_, _, _, _)
foldSource(newMap, src, recs, i) ==
    IF i > Len(recs) THEN newMap
    ELSE LET cid == getClientId(recs[i])
             m == ensureEntry(newMap, cid)
         IN  IF cid <= 0 \/ cid \notin DOMAIN m
             THEN foldSource(newMap, src, recs, i + 1)
             ELSE foldSource([m EXCEPT ![cid] = foldRecord(src, m[cid], recs[i])],
                             src, recs, i + 1)

\* A fold in which a source that fails resets what the others counted.
foldIfOkWiping(newMap, src, o) ==
    IF o[src] = "data" THEN foldSource(newMap, src, SourceData(src), 1) ELSE initialMap

foldIfOk(newMap, src, o) ==
    IF o[src] = "data" THEN foldSource(newMap, src, SourceData(src), 1) ELSE newMap

\* lines 649-759: the map a cycle with source outcomes o computes
computeMap(o) ==
    foldIfOk(foldIfOk(foldIfOk(foldIfOk(foldIfOk(initialMap,
        "alerts", o), "hosts", o), "reports", o), "insights", o), "veeam", o)

\* ---- orgRows (useMemo, lines 793-827) ----
\* a.orgName.localeCompare(b.orgName) < 0 over the names of Organizations
NameOrder == <<"Acme", "Beta", "Core">>
NameRank(name) == CHOOSE i \in 1..Len(NameOrder) : NameOrder[i] = name

RowOf(org, clientId, metrics) ==
    [orgId |-> org.id, orgName |-> org.name, clientId |-> clientId, status |-> org.status,
     alerts |-> metrics.alerts, activeAlerts |-> metrics.activeAlerts,
     criticalAlerts |-> metrics.criticalAlerts,
     hosts |-> metrics.hosts, enabledHosts |-> metrics.enabledHosts,
     reports |-> metrics.reports, insights |-> metrics.insights,
     veeamJobs |-> metrics.veeamJobs, veeamSuccess |-> metrics.veeamSuccess,
     veeamFailed |-> metrics.veeamFailed]

\* orgMetricsMap.forEach (lines 795-814). The Map iterates in insertion
\* order, which is the order of orgsWithClientId (lines 657-664).
RowsOfMap(map) ==
    LET held == SelectSeq(orgsWithClientId,
                          LAMBDA o : o.clientId \in DOMAIN map
                                     /\ o.clientId \in DOMAIN clientIdToOrg
                                     /\ clientIdToOrg[o.clientId] = o)
    IN  [i \in 1..Len(held) |-> RowOf(held[i], held[i].clientId, map[held[i].clientId])]

\* organizations.forEach (lines 816-824): zero rows for tenants without clientId
RowsWithoutClientId(rows) ==
    LET missing == SelectSeq(Organizations,
                             LAMBDA o : o.clientId <= 0
                                        /\ ~\E j \in 1..Len(rows) : rows[j].orgId = o.id)
    IN  [i \in 1..Len(missing) |-> RowOf(missing[i], 0, zeroEntry)]

\* rows.sort((a, b) => a.orgName.localeCompare(b.orgName)): stable, ascending
RECURSIVE InsertByName(_, _)
InsertByName(sorted, x) ==
    IF sorted = <<>> THEN <<x>>
    ELSE IF NameRank(Head(sorted).orgName) <= NameRank(x.orgName)
         THEN <<Head(sorted)>> \o InsertByName(Tail(sorted), x)
         ELSE <<x>> \o sorted

RECURSIVE SortByName(_)
SortByName(s) ==
    IF s = <<>> THEN <<>>
    ELSE InsertByName(SortByName(SubSeq(s, 1, Len(s) - 1)), s[Len(s)])

orgRows ==
    LET rows == RowsOfMap(orgMetricsMap)
    IN  SortByName(rows \o RowsWithoutClientId(rows))

\* ---- summary (useMemo, lines 829-845) ----
emptySummary ==
    [totalAlerts |-> 0, activeAlerts |-> 0, criticalAlerts |-> 0,
     totalHosts |-> 0, enabledHosts |-> 0, disabledHosts |-> 0,
     totalReports |-> 0, dailyReports |-> 0, weeklyReports |-> 0, monthlyReports |-> 0,
     totalInsights |-> 0, predictions |-> 0, anomalies |-> 0,
     totalVeeamJobs |-> 0, veeamSuccess |-> 0, veeamFailed |-> 0]

\* A callback that subtracts the wrong way round.
disabledOfSwapped(r) == r.enabledHosts - r.hosts

\* line 836: r.hosts - r.enabledHosts
disabledOf(r) == r.hosts - r.enabledHosts

\* A callback that assigns where the code adds.
addRowOverwriting(s, r) ==
    [s EXCEPT
       !.totalAlerts = r.alerts, !.activeAlerts = r.activeAlerts,
       !.criticalAlerts = r.criticalAlerts, !.totalHosts = r.hosts,
       !.enabledHosts = r.enabledHosts, !.disabledHosts = disabledOf(r),
       !.totalReports = r.reports, !.totalInsights = r.insights,
       !.totalVeeamJobs = r.veeamJobs, !.veeamSuccess = r.veeamSuccess,
       !.veeamFailed = r.veeamFailed]

\* the callback of orgRows.forEach, lines 831-843
addRow(s, r) ==
    [s EXCEPT
       !.totalAlerts = @ + r.alerts,
       !.activeAlerts = @ + r.activeAlerts,
       !.criticalAlerts = @ + r.criticalAlerts,
       !.totalHosts = @ + r.hosts,
       !.enabledHosts = @ + r.enabledHosts,
       !.disabledHosts = @ + disabledOf(r),
       !.totalReports = @ + r.reports,
       !.totalInsights = @ + r.insights,
       !.totalVeeamJobs = @ + r.veeamJobs,
       !.veeamSuccess = @ + r.veeamSuccess,
       !.veeamFailed = @ + r.veeamFailed]

RECURSIVE summaryOf(_, _, _)
summaryOf(s, rows, i) ==
    IF i > Len(rows) THEN s ELSE summaryOf(addRow(s, rows[i]), rows, i + 1)

summary == summaryOf(emptySummary, orgRows, 1)

\* ---- the hook as a state machine ----
GlobalInit ==
    /\ gPhase = "constructed"
    /\ gIntervalRef = "none"
    /\ abortRef = 0
    /\ orgMetricsMap = <<>>
    /\ gLoading = TRUE
    /\ gError = Null
    /\ gLastUpdated = NullDate
    /\ gNow = 1
    /\ cycles = {}
    /\ gStarted = 0
    /\ gLastApplied = 0
    /\ gLastOutcome = [src \in Sources |-> "none"]

\* abortRef.current.abort(): every request of the cycles in flight is aborted
AbortAll(cs) == {[c EXCEPT !.aborted = TRUE] : c \in cs}

\* fetchAll(silent) up to its first await (lines 623-647)
StartCycle(silent) ==
    /\ enabled /\ Len(orgsWithClientId) # 0
    /\ gStarted < MaxCycles
    /\ gStarted' = gStarted + 1
    /\ abortRef' = gStarted + 1
    /\ cycles' = (IF abortRef # 0 THEN AbortAll(cycles) ELSE cycles)
                 \cup {[n |-> gStarted + 1, silent |-> silent, aborted |-> FALSE]}
    /\ gLoading' = IF ~silent THEN TRUE ELSE gLoading

\* The effects of the first commit (lines 776-790)
GMountEffects ==
    /\ gPhase = "constructed"
    /\ gPhase' = "mounted"
    /\ StartCycle(FALSE)
    /\ gIntervalRef' = IF enabled THEN "set" ELSE gIntervalRef
    /\ UNCHANGED <<orgMetricsMap, gError, gLastUpdated, gNow, gLastApplied, gLastOutcome>>

\* The interval callback (line 785)
GTick ==
    /\ gIntervalRef = "set"
    /\ gNow' = gNow + REFRESH_INTERVAL_GLOBAL
    /\ StartCycle(TRUE)
    /\ UNCHANGED <<gPhase, gIntervalRef, orgMetricsMap, gError, gLastUpdated,
                   gLastApplied, gLastOutcome>>

\* refresh() (lines 878-880)
GRefresh ==
    /\ gPhase = "mounted"
    /\ StartCycle(FALSE)
    /\ UNCHANGED <<gPhase, gIntervalRef, orgMetricsMap, gError, gLastUpdated, gNow,
                   gLastApplied, gLastOutcome>>

\* Cleanup of the auto-refresh effect (lines 786-789)
GUnmount ==
    /\ gPhase = "mounted"
    /\ gPhase' = "unmounted"
    /\ gIntervalRef' = IF gIntervalRef # "none" THEN "cleared" ELSE gIntervalRef
    /\ cycles' = IF abortRef # 0 THEN AbortAll(cycles) ELSE cycles
    /\ UNCHANGED <<abortRef, orgMetricsMap, gLoading, gError, gLastUpdated, gNow,
                   gStarted, gLastApplied, gLastOutcome>>

\* The order in which fetchAll decodes the five responses (lines 677-759).
SourceOrder == <<"alerts", "hosts", "reports", "insights", "veeam">>

\* What the requests of cycle c can have ended as. An aborted cycle was
\* waiting for its requests or for one of the bodies when the signal fired:
\* from that source on, every request rejects (post() turns it into null)
\* or every body read fails.
PossibleOutcome(c, o) ==
    c.aborted =>
        \E k \in 1..Len(SourceOrder) :
            \A i \in k..Len(SourceOrder) : o[SourceOrder[i]] \in {"rejected", "parsefail"}

\* The rest of fetchAll once Promise.all and the safeParseResponse calls have
\* settled (lines 649-770). post() catches every rejection, AbortError
\* included, and safeParseResponse does not throw, so the catch block of line
\* 764 is never entered.
CycleComplete(c, o) ==
    /\ c \in cycles
    /\ PossibleOutcome(c, o)
    /\ orgMetricsMap' = computeMap(o)
    /\ gError' = Null
    /\ gLastUpdated' = gNow
    /\ gLoading' = IF ~c.silent THEN FALSE ELSE gLoading
    /\ cycles' = cycles \ {c}
    /\ gLastApplied' = c.n
    /\ gLastOutcome' = o
    /\ UNCHANGED <<gPhase, gIntervalRef, abortRef, gNow, gStarted>>

GComplete == \E c \in cycles : \E o \in CycleOutcomes : CycleComplete(c, o)

(***************************************************************************)
(* useOrganizationVeeamMetrics (src/unnamed/part_006)                      *)
(***************************************************************************)

\* ---- bounds ----
MaxOrgFetches == 2   \* calls of fetchAll in one behaviour

\* ---- options ----
oClientId == 7
oEnabled == TRUE

ORG_REFRESH_INTERVAL == 30000

OSources == {"br", "infra", "jarvis"}

\* How one request of a call ends:
\*   "rejected"  the promise of authenticatedFetch rejected
\*   "http"      a response with !ok
\*   "parsefail" the body could not be decoded (safeParseResponse not ok,
\*               response.json() rejected)
\*   "empty"     decoded to null
\*   "data"      decoded to an array
OFailureKinds == {"rejected", "http", "parsefail", "empty"}

\* The outcomes of the three requests of one call: any subset of the sources
\* answers with data; the others end the same way.
OOutcomes ==
    {[src \in OSources |-> IF src \in ok THEN "data" ELSE kind] :
        ok \in SUBSET OSources, kind \in OFailureKinds}

\* A data slot holds the answer of call n; 0 is the initial value (null, []).
HeldFrom(n) == [call |-> n]

\* ---- the hook as a state machine ----
OrgInit ==
    /\ oPhase = "constructed"
    /\ oIntervalRef = "none"
    /\ oLoading = TRUE
    /\ oError = Null
    /\ oLastUpdated = NullDate
    /\ oNow = 1
    /\ brData = HeldFrom(0)
    /\ infraVMs = HeldFrom(0)
    /\ jarvisItems = HeldFrom(0)
    /\ oFetches = {}
    /\ oStarted = 0
    /\ oLastOutcome = [src \in OSources |-> "none"]

\* fetchAll(silent) up to await Promise.allSettled (lines 234-253)
OStartFetch(silent) ==
    /\ oClientId # 0 /\ oEnabled
    /\ oStarted < MaxOrgFetches
    /\ oStarted' = oStarted + 1
    /\ oFetches' = oFetches \cup {[n |-> oStarted + 1, silent |-> silent]}
    /\ oLoading' = IF ~silent THEN TRUE ELSE oLoading

\* The effect of the first commit (lines 319-327): initial fetch and setInterval
OMountEffects ==
    /\ oPhase = "constructed"
    /\ oPhase' = "mounted"
    /\ oClientId # 0 /\ oEnabled
    /\ OStartFetch(FALSE)
    /\ oIntervalRef' = "set"
    /\ UNCHANGED <<oError, oLastUpdated, oNow, brData, infraVMs, jarvisItems, oLastOutcome>>

\* The interval callback (line 322), ORG_REFRESH_INTERVAL after the last one
OTick ==
    /\ oIntervalRef = "set"
    /\ oNow' = oNow + ORG_REFRESH_INTERVAL
    /\ OStartFetch(TRUE)
    /\ UNCHANGED <<oPhase, oIntervalRef, oError, oLastUpdated, brData, infraVMs,
                   jarvisItems, oLastOutcome>>

\* refresh: () => fetchAll(false) (line 435)
ORefresh ==
    /\ oPhase = "mounted"
    /\ OStartFetch(FALSE)
    /\ UNCHANGED <<oPhase, oIntervalRef, oError, oLastUpdated, oNow, brData, infraVMs,
                   jarvisItems, oLastOutcome>>

\* Cleanup of the effect (lines 324-326)
OUnmount ==
    /\ oPhase = "mounted"
    /\ oPhase' = "unmounted"
    /\ oIntervalRef' = IF oIntervalRef # "none" THEN "cleared" ELSE oIntervalRef
    /\ UNCHANGED <<oLoading, oError, oLastUpdated, oNow, brData, infraVMs, jarvisItems,
                   oFetches, oStarted, oLastOutcome>>

\* The rest of fetchAll once Promise.allSettled and the decoding of the
\* three answers have settled (lines 255-315). Promise.allSettled does not
\* reject and every decoding sits in its own try/catch, so the outer catch
\* block is not entered.
OrgFetchComplete(f, o) ==
    /\ f \in oFetches
    /\ brData' = IF o["br"] = "data" THEN HeldFrom(f.n) ELSE brData
    /\ infraVMs' = IF o["infra"] = "data" THEN HeldFrom(f.n) ELSE infraVMs
    /\ jarvisItems' = CASE o["jarvis"] = "data" -> HeldFrom(f.n)
                        [] o["jarvis"] = "empty" -> HeldFrom(0)    \* rawItems = []
                        [] OTHER -> jarvisItems
    /\ oLastUpdated' = oNow
    /\ oError' = Null
    /\ oLoading' = IF ~f.silent THEN FALSE ELSE oLoading
    /\ oFetches' = oFetches \ {f}
    /\ oLastOutcome' = o
    /\ UNCHANGED <<oPhase, oIntervalRef, oNow, oStarted>>

OComplete == \E f \in oFetches : \E o \in OOutcomes : OrgFetchComplete(f, o)

(***************************************************************************)
(* usePaginatedList and the tabs of useOrganizationVeeamMetrics             *)
(***************************************************************************)

\* ---- bounds ----
MaxItems == 17       \* longest collection a tab or a drilldown list holds
MaxPageArg == 4      \* largest page number handed to setCurrentPage

PAGE_SIZE == 8

Max(a, b) == IF a >= b THEN a ELSE b
Min(a, b) == IF a <= b THEN a ELSE b

\* Math.ceil(a / b) for a >= 0, b > 0
Ceil(a, b) == (a + b - 1) \div b

\* Array.prototype.slice(start, end).length on an array of len elements
SliceFrom(len, i) == IF i < 0 THEN Max(len + i, 0) ELSE Min(i, len)
SliceLen(len, start, end) == Max(SliceFrom(len, end) - SliceFrom(len, start), 0)

\* The collection is abstracted to its length; its items are alternately
\* protected and unprotected, the first one protected.
TabFilters == {"all", "protected", "unprotected"}

\* filteredBRMatched: the length of the filtered list
filteredLength(n, f) ==
    CASE f = "all" -> n
      [] f = "protected" -> (n + 1) \div 2
      [] f = "unprotected" -> n \div 2

\* what usePaginatedList returns in a render
totalPagesOf(len) == Max(1, Ceil(len, PAGE_SIZE))
totalItems == filteredLength(tabItems, tabFilter)
totalPages == totalPagesOf(totalItems)
paginatedLength == SliceLen(totalItems, (currentPage - 1) * PAGE_SIZE,
                            (currentPage - 1) * PAGE_SIZE + PAGE_SIZE)

TabOp(op, arg) == [op |-> op, arg |-> arg, before |-> currentPage]

\* the effect of usePaginatedList: deps [totalPages, currentPage]
clampEffectNever(effects, page, total) == page

clampEffect(effects, page, total) ==
    IF "clamp" \in effects /\ page > total THEN total ELSE page

\* the tab's reset effect: deps are the tab's search and filter state
resetEffectNever(effects, page) == page

resetEffect(effects, page) == IF "reset" \in effects THEN 1 ELSE page

\* effects whose dependencies differ between two renders
DueEffects(items1, filter1, page1, items2, filter2, page2) ==
    (IF \/ totalPagesOf(filteredLength(items1, filter1))
             # totalPagesOf(filteredLength(items2, filter2))
        \/ page1 # page2
     THEN {"clamp"} ELSE {})
    \cup (IF filter1 # filter2 THEN {"reset"} ELSE {})

\* first render and its effects: brData is null and the list empty, the page
\* is 1, the reset effect sets 1 again
TabInit ==
    /\ tabItems = 0
    /\ tabFilter = "all"
    /\ currentPage = 1
    /\ tabEffects = {}
    /\ tabLastOp = [op |-> "mount", arg |-> 0, before |-> 1]

\* Events are handled when the effects of the last render have run.
\* setCurrentPage is the setter of useState.
SetCurrentPage(n) ==
    /\ tabEffects = {}
    /\ currentPage' = n
    /\ tabEffects' = DueEffects(tabItems, tabFilter, currentPage, tabItems, tabFilter, n)
    /\ tabLastOp' = TabOp("setCurrentPage", n)
    /\ UNCHANGED <<tabItems, tabFilter>>

\* setBrSearch, setBrProtectedFilter, ... with a new value
SetFilter(f) ==
    /\ tabEffects = {}
    /\ f # tabFilter
    /\ tabFilter' = f
    /\ tabEffects' = DueEffects(tabItems, tabFilter, currentPage, tabItems, f, currentPage)
    /\ tabLastOp' = TabOp("setFilter", f)
    /\ UNCHANGED <<tabItems, currentPage>>

\* a refresh replaced the tab's collection
SetItems(n) ==
    /\ tabEffects = {}
    /\ n # tabItems
    /\ tabItems' = n
    /\ tabEffects' = DueEffects(tabItems, tabFilter, currentPage, n, tabFilter, currentPage)
    /\ tabLastOp' = TabOp("setItems", n)
    /\ UNCHANGED <<tabFilter, currentPage>>

\* The effects of the committed render run in the order of their
\* declaration; the state updates they make are batched, the last one wins.
RunEffects ==
    /\ tabEffects # {}
    /\ LET next == resetEffect(tabEffects,
                               clampEffect(tabEffects, currentPage, totalPages))
       IN /\ currentPage' = next
          /\ tabEffects' = DueEffects(tabItems, tabFilter, currentPage,
                                      tabItems, tabFilter, next)
    /\ UNCHANGED <<tabItems, tabFilter, tabLastOp>>

TabSetCurrentPage == \E n \in 0..MaxPageArg : SetCurrentPage(n)
TabSetFilter == \E f \in TabFilters : SetFilter(f)
TabSetItems == \E n \in 0..MaxItems : SetItems(n)

(***************************************************************************)
(* HostsDrilldown / UsersDrilldown and DrilldownPagination                  *)
(***************************************************************************)

ITEMS_PER_PAGE == 8

\* The hosts are abstracted to their number; they are alternately enabled and
\* disabled, the first one enabled.
HostFilters == {"all", "enabled", "disabled"}

\* filteredHosts.length
filteredHosts(n, f) ==
    CASE f = "all" -> n
      [] f = "enabled" -> (n + 1) \div 2
      [] f = "disabled" -> n \div 2

dTotalItems == filteredHosts(dItems, dFilter)

\* paginatedHosts.length
paginatedHosts ==
    SliceLen(dTotalItems, (dCurrentPage - 1) * ITEMS_PER_PAGE,
             (dCurrentPage - 1) * ITEMS_PER_PAGE + ITEMS_PER_PAGE)

\* DrilldownPagination renders its buttons only over more than one page
dTotalPages == Ceil(dTotalItems, ITEMS_PER_PAGE)
ControlsShown == ~(dTotalItems <= ITEMS_PER_PAGE)
canGoPrev == dCurrentPage > 1
canGoNext == dCurrentPage < dTotalPages

\* first render and its effect, over the empty list of a parent still loading
DrillInit ==
    /\ dItems = 0
    /\ dFilter = "all"
    /\ dCurrentPage = 1
    /\ dEffects = {}

\* the Previous button
DPrev ==
    /\ dEffects = {}
    /\ ControlsShown
    /\ canGoPrev
    /\ dCurrentPage' = dCurrentPage - 1
    /\ UNCHANGED <<dItems, dFilter, dEffects>>

\* the Next button
DNext ==
    /\ dEffects = {}
    /\ ControlsShown
    /\ canGoNext
    /\ dCurrentPage' = dCurrentPage + 1
    /\ UNCHANGED <<dItems, dFilter, dEffects>>

\* setFilter / setSearchQuery with a new value
DSetFilter(f) ==
    /\ dEffects = {}
    /\ f # dFilter
    /\ dFilter' = f
    /\ dEffects' = {"reset"}
    /\ UNCHANGED <<dItems, dCurrentPage>>

\* the parent passes another hosts array
DSetHosts(n) ==
    /\ dEffects = {}
    /\ n # dItems
    /\ dItems' = n
    /\ UNCHANGED <<dFilter, dCurrentPage, dEffects>>

\* the component's one effect: deps [filter, searchQuery]
DRunEffects ==
    /\ dEffects # {}
    /\ dCurrentPage' = 1
    /\ dEffects' = {}
    /\ UNCHANGED <<dItems, dFilter>>

DrillSetFilter == \E f \in HostFilters : DSetFilter(f)
DrillSetHosts == \E n \in 0..MaxItems : DSetHosts(n)

(***************************************************************************)
(* useVeeamBackupAndReplication.ts                                         *)
(***************************************************************************)

\* ---- bounds ----
MaxFetches == 2      \* calls of fetchJobs in one behaviour

REFRESH_INTERVAL == 5000

\* ---- webhook payloads ----
Keys == {"a", "b"}
Severities == {"success", "Failed", "error"}

\* lastRun 0 stands for a missing / falsy raw_message.metrics.lastRun.
\* Record "a" never carries lastRun, record "b" always does.
RawJob(k, sv) == [dedupe_key |-> k, severity |-> sv, lastRun |-> IF k = "a" THEN 0 ELSE 5]

RawJobs == {RawJob(k, sv) : k \in Keys, sv \in Severities}

\* The object {} : no dedupe_key, no severity.
EmptyObject == [dedupe_key |-> Undefined, severity |-> Undefined, lastRun |-> 0]

\* A record that has a severity but no dedupe_key.
KeylessJob == [dedupe_key |-> Undefined, severity |-> "success", lastRun |-> 5]

\* The orders in which an array lists records: every key at most once, or
\* one key twice.
KeySeqs ==
    {ks \in SeqsUpTo(Keys, Cardinality(Keys)) :
        \A i, j \in 1..Len(ks) : i # j => ks[i] # ks[j]}
    \cup {<<k, k>> : k \in Keys}

\* What response.json() resolves to: an array of records or a single object.
ArrayPayloads ==
    UNION {{[isArray |-> TRUE, items |-> [i \in 1..Len(ks) |-> RawJob(ks[i], sv[i])]] :
               sv \in [1..Len(ks) -> Severities]} : ks \in KeySeqs}
    \cup {[isArray |-> TRUE, items |-> <<RawJob("b", "success"), EmptyObject>>],
          [isArray |-> TRUE, items |-> <<RawJob("b", "success"), KeylessJob>>]}
ObjectPayloads ==
    {[isArray |-> FALSE, items |-> <<j>>] : j \in RawJobs \cup {EmptyObject, KeylessJob}}

NoPayload == [isArray |-> FALSE, items |-> <<>>]

\* Outcomes of the network call and of response.json()
FailingOutcomes ==
    {[kind |-> "reject", status |-> 0, data |-> NoPayload],       \* fetch() rejects
     [kind |-> "http", status |-> 500, data |-> NoPayload],       \* !response.ok
     [kind |-> "badjson", status |-> 200, data |-> NoPayload]}    \* response.json() rejects
JsonOutcomes(P) == {[kind |-> "json", status |-> 200, data |-> d] : d \in P}

\* ---- mapSeverity / transformVeeamJob ----
ToLower(str) ==
    CASE str = "Failed" -> "failed"
      [] OTHER -> str

mapSeverity(severity) ==
    LET lower == ToLower(severity) IN
    IF lower = "success" THEN "Success"
    ELSE IF lower = "warning" THEN "Warning"
    ELSE IF lower = "failed" \/ lower = "error" THEN "Failed"
    ELSE IF lower = "running" \/ lower = "in progress" THEN "Running"
    ELSE "Unknown"

\* severity.toLowerCase() throws a TypeError when severity is undefined.
TransformThrows(job) == job.severity = Undefined

\* new Date(job.raw_message?.metrics?.lastRun || Date.now())
LastRunOf(job, t) == IF job.lastRun # 0 THEN job.lastRun ELSE t

\* ref is the identity of the object the call allocates.
transformVeeamJob(job, ref, t) ==
    [ref |-> ref,
     id |-> job.dedupe_key,
     status |-> mapSeverity(job.severity),
     lastRun |-> LastRunOf(job, t),
     dedupeKey |-> job.dedupe_key]

\* JSON.stringify(job): every field, not the identity of the object
Stringify(o) == <<o.id, o.status, o.lastRun, o.dedupeKey>>

\* ---- Map ----
MapHas(m, k) == \E i \in 1..Len(m) : m[i].id = k
MapGet(m, k) == m[CHOOSE i \in 1..Len(m) : m[i].id = k]
MapSet(m, k, v) ==
    IF MapHas(m, k)
    THEN [i \in 1..Len(m) |-> IF m[i].id = k THEN v ELSE m[i]]
    ELSE Append(m, v)

\* ---- fetchJobs, lines 164-186 ----
webhookJobs(data) == data.items     \* Array.isArray(data) ? data : [data]

\* The body of transformedJobs.forEach (lines 172-179).
MergeOne(newJobsMap, current, job) ==
    IF ~MapHas(current, job.id) \/ Stringify(MapGet(current, job.id)) # Stringify(job)
    THEN MapSet(newJobsMap, job.id, job)
    ELSE MapSet(newJobsMap, job.id, MapGet(current, job.id))

RECURSIVE MergeAll(_, _, _, _)
MergeAll(newJobsMap, current, transformedJobs, i) ==
    IF i > Len(transformedJobs) THEN newJobsMap
    ELSE MergeAll(MergeOne(newJobsMap, current, transformedJobs[i]), current,
                  transformedJobs, i + 1)

\* Array.prototype.sort((a, b) => b.lastRun - a.lastRun): stable, descending
RECURSIVE InsertByLastRun(_, _)
InsertByLastRun(sorted, x) ==
    IF sorted = <<>> THEN <<x>>
    ELSE IF Head(sorted).lastRun >= x.lastRun
         THEN <<Head(sorted)>> \o InsertByLastRun(Tail(sorted), x)
         ELSE <<x>> \o sorted

RECURSIVE SortByLastRunDesc(_)
SortByLastRunDesc(s) ==
    IF s = <<>> THEN <<>>
    ELSE InsertByLastRun(SortByLastRunDesc(SubSeq(s, 1, Len(s) - 1)), s[Len(s)])

Transformed(f, data) ==
    [i \in 1..Len(webhookJobs(data)) |->
        transformVeeamJob(webhookJobs(data)[i], <<f.n, i>>, now)]

\* Whether the try block of fetchJobs throws for this outcome.
Fails(o) ==
    \/ o.kind # "json"
    \/ \E i \in 1..Len(webhookJobs(o.data)) : TransformThrows(webhookJobs(o.data)[i])

ErrorMessage(o) ==
    CASE o.kind = "reject" -> "Failed to fetch"
      [] o.kind = "http" -> "HTTP error! status: 500"
      [] o.kind = "badjson" -> "Unexpected end of JSON input"
      [] OTHER -> "Cannot read properties of undefined (reading 'toLowerCase')"

\* A merge that starts from the current working set instead of an empty Map.
ApplySuccessKeeping(f, data) ==
    LET newJobsMap == MergeAll(jobsMapRef, jobsMapRef, Transformed(f, data), 1) IN
    /\ jobsMapRef' = newJobsMap
    /\ jobs' = SortByLastRunDesc(newJobsMap)
    /\ isConnected' = TRUE
    /\ lastUpdated' = now
    /\ error' = Null

\* try block after the awaits (lines 164-189)
ApplySuccess(f, data) ==
    LET newJobsMap == MergeAll(<<>>, jobsMapRef, Transformed(f, data), 1) IN
    /\ jobsMapRef' = newJobsMap
    /\ jobs' = SortByLastRunDesc(newJobsMap)
    /\ isConnected' = TRUE
    /\ lastUpdated' = now
    /\ error' = Null

\* A catch block that also clears the data.
ApplyFailureClearing(f, msg) ==
    /\ error' = IF ~f.silent THEN msg ELSE error
    /\ isConnected' = FALSE
    /\ jobs' = <<>>
    /\ jobsMapRef' = <<>>
    /\ UNCHANGED lastUpdated

\* catch block (lines 190-196)
ApplyFailure(f, msg) ==
    /\ error' = IF ~f.silent THEN msg ELSE error
    /\ isConnected' = FALSE
    /\ UNCHANGED <<jobs, jobsMapRef, lastUpdated>>

\* ---- the hook as a state machine ----
VeeamInit ==
    /\ phase = "constructed"
    /\ intervalRef = "none"
    /\ jobs = <<>>
    /\ jobsMapRef = <<>>
    /\ loading = TRUE
    /\ error = Null
    /\ isConnected = FALSE
    /\ lastUpdated = NullDate
    /\ now = 1
    /\ fetches = {}
    /\ started = 0
    /\ lastApplied = 0
    /\ heldPayload = NoPayload
    /\ prevJobsMap = <<>>
    /\ lastOutcome = "none"

\* A start that shows the loading state for every trigger.
StartFetchAlwaysLoading(silent) ==
    /\ started < MaxFetches
    /\ started' = started + 1
    /\ fetches' = fetches \cup {[n |-> started + 1, silent |-> silent]}
    /\ loading' = TRUE

\* fetchJobs(silent) up to its first await (lines 147-156)
StartFetch(silent) ==
    /\ started < MaxFetches
    /\ started' = started + 1
    /\ fetches' = fetches \cup {[n |-> started + 1, silent |-> silent]}
    /\ loading' = IF ~silent THEN TRUE ELSE loading

\* The two effects of the first commit (lines 203-218): the initial fetch and
\* setInterval.
MountEffects ==
    /\ phase = "constructed"
    /\ phase' = "mounted"
    /\ StartFetch(FALSE)
    /\ intervalRef' = "set"
    /\ UNCHANGED <<jobs, jobsMapRef, error, isConnected, lastUpdated, now,
                   lastApplied, heldPayload, prevJobsMap,
                   lastOutcome>>

\* An interval that polls only while the source is connected.
TickWhileConnected ==
    /\ intervalRef = "set"
    /\ isConnected
    /\ now' = now + REFRESH_INTERVAL
    /\ StartFetch(TRUE)
    /\ UNCHANGED <<phase, intervalRef, jobs, jobsMapRef, error, isConnected,
                   lastUpdated, lastApplied, heldPayload, prevJobsMap,
                   lastOutcome>>

\* The interval callback (lines 209-211), REFRESH_INTERVAL after the last one
Tick ==
    /\ intervalRef = "set"
    /\ now' = now + REFRESH_INTERVAL
    /\ StartFetch(TRUE)
    /\ UNCHANGED <<phase, intervalRef, jobs, jobsMapRef, error, isConnected,
                   lastUpdated, lastApplied, heldPayload, prevJobsMap,
                   lastOutcome>>

\* refresh() (lines 220-222)
Refresh ==
    /\ phase = "mounted"
    /\ StartFetch(FALSE)
    /\ UNCHANGED <<phase, intervalRef, jobs, jobsMapRef, error, isConnected,
                   lastUpdated, now, lastApplied, heldPayload, prevJobsMap,
                   lastOutcome>>

\* Cleanup of the interval effect (lines 213-217)
Unmount ==
    /\ phase = "mounted"
    /\ phase' = "unmounted"
    /\ intervalRef' = IF intervalRef # "none" THEN "cleared" ELSE intervalRef
    /\ UNCHANGED <<jobs, jobsMapRef, loading, error, isConnected, lastUpdated, now,
                   fetches, started, lastApplied, heldPayload, prevJobsMap,
                   lastOutcome>>

\* The rest of fetchJobs once the network call and response.json() have
\* settled with outcome o (lines 158-199). Nothing in it asks whether the
\* hook is still mounted or whether a later call has started.
FetchComplete(f, o) ==
    /\ f \in fetches
    /\ IF Fails(o) THEN ApplyFailure(f, ErrorMessage(o)) ELSE ApplySuccess(f, o.data)
    /\ loading' = IF ~f.silent THEN FALSE ELSE loading
    /\ fetches' = fetches \ {f}
    /\ lastApplied' = f.n
    /\ heldPayload' = IF Fails(o) THEN heldPayload ELSE o.data
    /\ prevJobsMap' = IF Fails(o) THEN prevJobsMap ELSE jobsMapRef
    /\ lastOutcome' = IF Fails(o) THEN "failed" ELSE "ok"
    /\ UNCHANGED <<phase, intervalRef, now, started>>

DecoderIdle == response = [status |-> 200] /\ result = Pending

LifecycleInit == DecoderIdle /\ VeeamInit /\ GlobalInit /\ OrgInit /\ TabInit /\ DrillInit

\* Webhook outcomes of the lifecycle specification: a few payloads, every
\* failure.
LifecyclePayloads ==
    {[isArray |-> TRUE, items |-> <<>>],
     [isArray |-> TRUE, items |-> <<[dedupe_key |-> "a", severity |-> "success", lastRun |-> 0],
                                    [dedupe_key |-> "b", severity |-> "Failed", lastRun |-> 5]>>],
     [isArray |-> FALSE, items |-> <<[dedupe_key |-> "b", severity |-> "success", lastRun |-> 5]>>],
     [isArray |-> FALSE, items |-> <<EmptyObject>>]}

LifecycleOutcomes == FailingOutcomes \cup JsonOutcomes(LifecyclePayloads)

VeeamComplete == \E f \in fetches : \E o \in LifecycleOutcomes : FetchComplete(f, o)

VeeamNext ==
    \/ (MountEffects /\ UNCHANGED <<decoderVars, globalVars, orgVars, uiVars>>)
    \/ (Tick /\ UNCHANGED <<decoderVars, globalVars, orgVars, uiVars>>)
    \/ (Refresh /\ UNCHANGED <<decoderVars, globalVars, orgVars, uiVars>>)
    \/ (Unmount /\ UNCHANGED <<decoderVars, globalVars, orgVars, uiVars>>)
    \/ (VeeamComplete /\ UNCHANGED <<decoderVars, globalVars, orgVars, uiVars>>)

\* The hook's whole life: mount, ticks, manual refreshes, unmount.
SpecVeeam == LifecycleInit /\ [][VeeamNext]_vars

\* Polling alone: mount, the interval's ticks, unmount. A running interval
\* keeps calling back (setInterval, lines 209-211), hence the fairness of
\* the tick; nothing makes a pending request settle.
PollTick == Tick /\ UNCHANGED <<decoderVars, globalVars, orgVars, uiVars>>

PollingNext ==
    \/ (MountEffects /\ UNCHANGED <<decoderVars, globalVars, orgVars, uiVars>>)
    \/ PollTick
    \/ (Unmount /\ UNCHANGED <<decoderVars, globalVars, orgVars, uiVars>>)
    \/ (VeeamComplete /\ UNCHANGED <<decoderVars, globalVars, orgVars, uiVars>>)

PollingInit == DecoderIdle /\ VeeamInit /\ GlobalInit /\ OrgInit /\ TabInit /\ DrillInit

SpecPolling == PollingInit /\ [][PollingNext]_vars /\ WF_vars(PollTick)

\* Successive polls, one at a time, over every payload.
MergePayloads == ArrayPayloads \cup ObjectPayloads

MergeOutcomes == FailingOutcomes \cup JsonOutcomes(MergePayloads)

MergeComplete == \E f \in fetches : \E o \in MergeOutcomes : FetchComplete(f, o)

MergeNext ==
    \/ (MountEffects /\ UNCHANGED <<decoderVars, globalVars, orgVars, uiVars>>)
    \/ (fetches = {} /\ Tick /\ UNCHANGED <<decoderVars, globalVars, orgVars, uiVars>>)
    \/ (fetches = {} /\ Refresh /\ UNCHANGED <<decoderVars, globalVars, orgVars, uiVars>>)
    \/ (MergeComplete /\ UNCHANGED <<decoderVars, globalVars, orgVars, uiVars>>)

MergeInit == DecoderIdle /\ VeeamInit /\ GlobalInit /\ OrgInit /\ TabInit /\ DrillInit

SpecMerge == MergeInit /\ [][MergeNext]_vars


GlobalNext ==
    \/ (GMountEffects /\ UNCHANGED <<decoderVars, veeamVars, orgVars, uiVars>>)
    \/ (GTick /\ UNCHANGED <<decoderVars, veeamVars, orgVars, uiVars>>)
    \/ (GRefresh /\ UNCHANGED <<decoderVars, veeamVars, orgVars, uiVars>>)
    \/ (GUnmount /\ UNCHANGED <<decoderVars, veeamVars, orgVars, uiVars>>)
    \/ (GComplete /\ UNCHANGED <<decoderVars, veeamVars, orgVars, uiVars>>)

GlobalSpecInit == DecoderIdle /\ VeeamInit /\ GlobalInit /\ OrgInit /\ TabInit /\ DrillInit

SpecGlobal == GlobalSpecInit /\ [][GlobalNext]_vars

OrgNext ==
    \/ (OMountEffects /\ UNCHANGED <<decoderVars, veeamVars, globalVars, uiVars>>)
    \/ (OTick /\ UNCHANGED <<decoderVars, veeamVars, globalVars, uiVars>>)
    \/ (ORefresh /\ UNCHANGED <<decoderVars, veeamVars, globalVars, uiVars>>)
    \/ (OUnmount /\ UNCHANGED <<decoderVars, veeamVars, globalVars, uiVars>>)
    \/ (OComplete /\ UNCHANGED <<decoderVars, veeamVars, globalVars, uiVars>>)

\* One tab of useOrganizationVeeamMetrics: page changes, filter changes,
\* refreshed collections, and the effects after each render.
PagingNext ==
    \/ (TabSetCurrentPage /\ UNCHANGED <<decoderVars, veeamVars, globalVars, orgVars, drillVars>>)
    \/ (TabSetFilter /\ UNCHANGED <<decoderVars, veeamVars, globalVars, orgVars, drillVars>>)
    \/ (TabSetItems /\ UNCHANGED <<decoderVars, veeamVars, globalVars, orgVars, drillVars>>)
    \/ (RunEffects /\ UNCHANGED <<decoderVars, veeamVars, globalVars, orgVars, drillVars>>)

PagingInit == DecoderIdle /\ VeeamInit /\ GlobalInit /\ OrgInit /\ TabInit /\ DrillInit

SpecPaging == PagingInit /\ [][PagingNext]_vars

\* A drilldown list: its buttons, its filter, the parent's refreshes.
DrilldownNext ==
    \/ (DPrev /\ UNCHANGED <<decoderVars, veeamVars, globalVars, orgVars, tabVars>>)
    \/ (DNext /\ UNCHANGED <<decoderVars, veeamVars, globalVars, orgVars, tabVars>>)
    \/ (DrillSetFilter /\ UNCHANGED <<decoderVars, veeamVars, globalVars, orgVars, tabVars>>)
    \/ (DrillSetHosts /\ UNCHANGED <<decoderVars, veeamVars, globalVars, orgVars, tabVars>>)
    \/ (DRunEffects /\ UNCHANGED <<decoderVars, veeamVars, globalVars, orgVars, tabVars>>)

DrilldownInit == DecoderIdle /\ VeeamInit /\ GlobalInit /\ OrgInit /\ TabInit /\ DrillInit

SpecDrilldown == DrilldownInit /\ [][DrilldownNext]_vars

\* The three polling hooks. They share no state; a behaviour is the life of
\* one of them.
HooksInit == DecoderIdle /\ VeeamInit /\ GlobalInit /\ OrgInit /\ TabInit /\ DrillInit

\* No other hook than the named one has left its constructed state.
OnlyVeeam == gPhase = "constructed" /\ oPhase = "constructed"
OnlyGlobal == phase = "constructed" /\ oPhase = "constructed"
OnlyOrg == phase = "constructed" /\ gPhase = "constructed"

HooksNext ==
    \/ (OnlyVeeam /\ MountEffects /\ UNCHANGED <<decoderVars, globalVars, orgVars, uiVars>>)
    \/ (OnlyVeeam /\ Tick /\ UNCHANGED <<decoderVars, globalVars, orgVars, uiVars>>)
    \/ (OnlyVeeam /\ Refresh /\ UNCHANGED <<decoderVars, globalVars, orgVars, uiVars>>)
    \/ (OnlyVeeam /\ Unmount /\ UNCHANGED <<decoderVars, globalVars, orgVars, uiVars>>)
    \/ (OnlyVeeam /\ VeeamComplete /\ UNCHANGED <<decoderVars, globalVars, orgVars, uiVars>>)
    \/ (OnlyGlobal /\ GMountEffects /\ UNCHANGED <<decoderVars, veeamVars, orgVars, uiVars>>)
    \/ (OnlyGlobal /\ GTick /\ UNCHANGED <<decoderVars, veeamVars, orgVars, uiVars>>)
    \/ (OnlyGlobal /\ GRefresh /\ UNCHANGED <<decoderVars, veeamVars, orgVars, uiVars>>)
    \/ (OnlyGlobal /\ GUnmount /\ UNCHANGED <<decoderVars, veeamVars, orgVars, uiVars>>)
    \/ (OnlyGlobal /\ GComplete /\ UNCHANGED <<decoderVars, veeamVars, orgVars, uiVars>>)
    \/ (OnlyOrg /\ OMountEffects /\ UNCHANGED <<decoderVars, veeamVars, globalVars, uiVars>>)
    \/ (OnlyOrg /\ OTick /\ UNCHANGED <<decoderVars, veeamVars, globalVars, uiVars>>)
    \/ (OnlyOrg /\ ORefresh /\ UNCHANGED <<decoderVars, veeamVars, globalVars, uiVars>>)
    \/ (OnlyOrg /\ OUnmount /\ UNCHANGED <<decoderVars, veeamVars, globalVars, uiVars>>)
    \/ (OnlyOrg /\ OComplete /\ UNCHANGED <<decoderVars, veeamVars, globalVars, uiVars>>)

SpecHooks == HooksInit /\ [][HooksNext]_vars

\* ---- the decoder as a state machine: one call per behaviour ----
DecodeInit ==
    /\ response \in Responses \cup FetchErrors
    /\ result = Pending
    /\ VeeamInit
    /\ GlobalInit
    /\ OrgInit
    /\ TabInit
    /\ DrillInit

Decode ==
    /\ result = Pending
    /\ result' = decode(response)
    /\ UNCHANGED <<response, veeamVars, globalVars, orgVars, uiVars>>

DecodeNext == Decode

SpecDecode == DecodeInit /\ [][DecodeNext]_vars

\* ---- Claims about the decoder ----
IsSuccess(o) ==
    /\ o.threw = FALSE
    /\ o.ok = TRUE
    /\ "userMessage" \notin DOMAIN o
    /\ "debug" \notin DOMAIN o

IsFailure(o) ==
    /\ o.threw = FALSE
    /\ o.ok = FALSE
    /\ o.data = NullData
    /\ o.userMessage # ""
    /\ o.debug # <<>>

\* C1: safeParseResponse never throws; whatever the status, content-type and
\* body (empty, malformed, unreadable), it resolves to exactly one of Success
\* (ok = true) and Failure (ok = false, data = null, non-empty userMessage and
\* debug).
C1_NeverThrows ==
    result # Pending =>
        /\ result.threw = FALSE
        /\ (IsSuccess(result) \/ IsFailure(result))
        /\ ~(IsSuccess(result) /\ IsFailure(result))

\* A 2xx response whose body read fails has been decoded (to a Failure).
C1_Witness ==
    /\ result # Pending
    /\ response.readFails /\ response.status = 200 /\ response.contentLength = Null
    /\ IsFailure(result)

\* C2: a response whose status is outside 200..299 is decoded to a Failure
\* carrying that status, whatever its body.
C2_Non2xxIsFailure ==
    (result # Pending /\ ~ResponseOk(response)) =>
        /\ result.threw = FALSE
        /\ result.ok = FALSE
        /\ result.status = response.status

\* A 404 with a valid JSON body, and a 500 with an empty one, have been decoded.
C2_Witness ==
    /\ result # Pending
    /\ ~response.readFails /\ response.contentLength = Null
    /\ \/ response.status = 404 /\ response.body = <<"[", "1", "]">>
       \/ response.status = 500 /\ response.body = <<>>
    /\ IsFailure(result)

\* The messages of the fixed table.
MessageTable == {friendlyMessages[k] : k \in DOMAIN friendlyMessages}

\* How a decoded input failed: fetch() rejected, the status is not 2xx, or a
\* 2xx body could not be decoded.
FailureKindOf(r) ==
    IF r.fetchError # Null THEN "network"
    ELSE IF ~ResponseOk(r) THEN "http"
    ELSE "parse"

\* Inputs that differ from r in the body, in the URL or in the error text only.
ProbeBodies == {<<>>, <<"x">>, <<"{">>, <<"[", "1", "]">>, LongBody(SnippetLen + 1)}
Variants(r) ==
    IF r.fetchError # Null
    THEN {[r EXCEPT !.fetchError = e, !.url = u] : e \in ErrMessages, u \in Urls}
    ELSE {[r EXCEPT !.body = b] : b \in ProbeBodies} \cup {[r EXCEPT !.url = u] : u \in Urls}

\* C15: the userMessage of a Failure is an entry of the fixed message table
\* and depends only on the status and the kind of failure: an input with the
\* same status and kind and another body, URL or error text gets the same
\* userMessage.
C15_UserMessageFromTable ==
    (result # Pending /\ IsFailure(result)) =>
        /\ result.userMessage \in MessageTable
        /\ \A r2 \in Variants(response) :
              LET other == decode(r2) IN
              (/\ IsFailure(other)
               /\ other.status = result.status
               /\ FailureKindOf(r2) = FailureKindOf(response))
              => other.userMessage = result.userMessage

\* A 500 whose body is text has been decoded; its debug detail holds the
\* body and the URL, its userMessage is the table's server entry.
C15_Witness ==
    /\ result # Pending /\ IsFailure(result)
    /\ response.status = 500 /\ response.body = <<"x">> /\ response.url # ""
    /\ response.contentType = "text/plain" /\ response.contentLength = Null
    /\ ~response.readFails
    /\ result.userMessage = friendlyMessages.server
    /\ result.debug # decode([response EXCEPT !.body = <<"{">>]).debug

\* s holds t as a run of consecutive elements.
Contains(s, t) == \E i \in 0..(Len(s) - Len(t)) : SubSeq(s, i + 1, i + Len(t)) = t

\* The body of r is read, is not blank and is handed to JSON.parse.
AttemptedAsJson(r) ==
    /\ r.fetchError = Null
    /\ r.status # 204 /\ r.contentLength # "0" /\ ~r.readFails
    /\ Len(Trim(r.body)) # 0
    /\ (\/ IncludesJson(r.contentType)
        \/ StartsWith(Trim(r.body), "{") \/ StartsWith(Trim(r.body), "["))

\* C16: a 2xx response whose non-empty body is attempted as JSON and fails
\* to parse is decoded to a Failure with the fixed 'unexpected response'
\* message, and its debug detail contains the first 200 characters of the
\* raw body.
C16_MalformedJson ==
    (/\ result # Pending
     /\ ResponseOk(response)
     /\ AttemptedAsJson(response)
     /\ ~JSONParse(response.body).ok)
    => /\ IsFailure(result)
       /\ result.userMessage = friendlyMessages.parse
       /\ Contains(result.debug, Slice(response.body, SnippetLen))

\* A malformed 2xx body longer than the snippet has been decoded, and the
\* debug detail ends after the snippet.
C16_Witness ==
    /\ result # Pending
    /\ response.status = 200 /\ AttemptedAsJson(response)
    /\ Len(response.body) > SnippetLen
    /\ IsFailure(result)
    /\ ~Contains(result.debug, response.body)

\* The body of r is read and the read fails.
BodyReadFails(r) ==
    /\ r.fetchError = Null
    /\ r.status # 204 /\ r.contentLength # "0" /\ r.readFails

\* C17: a 2xx response whose body read fails is treated as an empty
\* response: it is decoded to what a 2xx response with an empty body is
\* decoded to, a Success with data null and no userMessage.
C17_ReadFailureIsEmpty ==
    (result # Pending /\ ResponseOk(response) /\ BodyReadFails(response))
    => /\ IsSuccess(result)
       /\ result = decode([response EXCEPT !.readFails = FALSE, !.body = <<>>])

\* ---- Claims about useVeeamBackupAndReplication ----

\* A call of fetchJobs settles in this step.
Settles == fetches' # fetches /\ fetches' \subseteq fetches

\* C3: at most one fetch of the polling source is in flight at any time; a
\* timer tick or a manual refresh() during a refresh starts no second one.
C3_AtMostOneInFlight == Cardinality(fetches) <= 1

\* C4: when refreshes overlap, the state finally published comes from the
\* refresh that started last: once every call has settled, the last writer of
\* jobs, isConnected, lastUpdated and error is the call started last.
C4_LastStartedWins ==
    (fetches = {} /\ started > 0) => lastApplied = started

\* C5: after the hook is unmounted nothing writes to its state: no tick starts
\* a fetch and no fetch in flight applies its result.
C5_NoWriteAfterUnmount ==
    [][phase = "unmounted" =>
          /\ UNCHANGED <<jobs, jobsMapRef, isConnected, lastUpdated, error, loading>>
          /\ started' = started]_vars

\* C6: a refresh that fails (network error, non-2xx, undecodable body, a
\* record the transform throws on), silent or not, leaves jobs and the merge
\* working set as they were.
C6_FailureKeepsData ==
    [][(Settles /\ lastOutcome' = "failed") => UNCHANGED <<jobs, jobsMapRef>>]_vars

\* A refresh has failed while records were held.
C6_Witness ==
    /\ lastOutcome = "failed"
    /\ jobs # <<>> /\ jobsMapRef # <<>>
    /\ ~isConnected

\* The reference held for key k in working set m
RefOf(m, k) == MapGet(m, k).ref

\* C9: merge idempotence: when a poll returns the collection the previous
\* poll returned, every record of the merged working set is the very object
\* that was held for its key.
C9_MergeIdempotent ==
    [][(/\ Settles /\ lastOutcome' = "ok"
        /\ heldPayload # NoPayload
        /\ heldPayload' = heldPayload)
       => \A i \in 1..Len(jobsMapRef') :
             /\ MapHas(jobsMapRef, jobsMapRef'[i].id)
             /\ RefOf(jobsMapRef, jobsMapRef'[i].id) = jobsMapRef'[i].ref]_vars

DistinctKeys(items) ==
    \A i, j \in 1..Len(items) : i # j => items[i].dedupe_key # items[j].dedupe_key

\* Records p and q differ in exactly one field, and the difference shows in
\* the transformed record.
OneFieldChanged(p, q) ==
    /\ Cardinality({fld \in {"dedupe_key", "severity", "lastRun"} : p[fld] # q[fld]}) = 1
    /\ \/ p.dedupe_key # q.dedupe_key
       \/ p.lastRun # q.lastRun
       \/ mapSeverity(p.severity) # mapSeverity(q.severity)

\* Poll q differs from poll p in exactly one field of the record at index i.
DiffersOnlyAt(p, q, i) ==
    /\ p.isArray = q.isArray
    /\ Len(p.items) = Len(q.items)
    /\ DistinctKeys(p.items) /\ DistinctKeys(q.items)
    /\ i \in 1..Len(p.items)
    /\ OneFieldChanged(p.items[i], q.items[i])
    /\ \A j \in 1..Len(p.items) : j # i => p.items[j] = q.items[j]

\* C10: merge replace law: when a poll differs from the previous one in
\* exactly one field of exactly one record, the merged working set holds a new
\* object with the new value for that record, and every other record is the
\* object held before.
C10_MergeReplacesOnlyChanged ==
    [][\A i \in 1..Cardinality(Keys) :
         (/\ Settles /\ lastOutcome' = "ok"
          /\ heldPayload # NoPayload
          /\ DiffersOnlyAt(heldPayload, heldPayload', i))
         => \A j \in 1..Len(heldPayload'.items) :
               LET rec == heldPayload'.items[j]
                   k == rec.dedupe_key
               IN  /\ MapHas(jobsMapRef', k)
                   /\ IF j = i
                      THEN /\ MapGet(jobsMapRef', k).status = mapSeverity(rec.severity)
                           /\ \A m \in 1..Len(jobsMapRef) :
                                 jobsMapRef[m].ref # RefOf(jobsMapRef', k)
                      ELSE /\ MapHas(jobsMapRef, k)
                           /\ RefOf(jobsMapRef', k) = RefOf(jobsMapRef, k)]_vars

\* The dedupe_key values of a fetched collection, and the keys of a job list.
PayloadKeys(p) == {p.items[i].dedupe_key : i \in 1..Len(p.items)}
JobKeys(m) == {m[i].id : i \in 1..Len(m)}

\* C11: after every successful poll the set of identity keys in the merged
\* result equals the set of keys in the newly fetched collection: new keys
\* are added, keys absent from the new collection are dropped, and an empty
\* new collection yields an empty result. Each key is held once.
C11_KeysFollowPoll ==
    [][(Settles /\ lastOutcome' = "ok")
         => /\ JobKeys(jobsMapRef') = PayloadKeys(heldPayload')
            /\ JobKeys(jobs') = PayloadKeys(heldPayload')
            /\ Len(jobsMapRef') = Cardinality(PayloadKeys(heldPayload'))
            /\ Len(jobs') = Len(jobsMapRef')]_vars

\* A poll that dropped key "a" and added key "b" has been merged.
C11_Witness ==
    /\ lastOutcome = "ok"
    /\ JobKeys(prevJobsMap) = {"a"}
    /\ PayloadKeys(heldPayload) = {"b"}
    /\ JobKeys(jobsMapRef) = {"b"}

\* C12: a fetched entry that lacks its identity key is discarded by the
\* merge: no entry without a key is in the merged working set or in the
\* published jobs.
C12_KeylessDiscarded ==
    /\ \A i \in 1..Len(jobsMapRef) : jobsMapRef[i].id # Undefined
    /\ \A i \in 1..Len(jobs) : jobs[i].id # Undefined

\* C18: every failed refresh, silent or not, leaves the source with
\* connected = false and a non-null error. (That the promise resolves is the
\* step itself: the catch block rethrows nothing.)
C18_FailureSetsError ==
    [][(Settles /\ lastOutcome' = "failed")
         => (isConnected' = FALSE /\ error' # Null)]_vars

\* C20: failures do not stop polling: while the hook stays mounted, after a
\* failed refresh the next tick starts another fetch (as long as the model's
\* bound on calls is not reached), and a fetch that succeeds sets
\* isConnected to true and clears the error.
C20_PollingContinues ==
    /\ \A k \in 1..(MaxFetches - 1) :
          (lastOutcome = "failed" /\ phase = "mounted" /\ started = k)
             ~> (started > k \/ phase # "mounted")
    /\ [][(Settles /\ lastOutcome' = "ok") => (isConnected' = TRUE /\ error' = Null)]_vars

\* The initial fetch has failed, and the tick has started the next one.
C20_Witness ==
    /\ phase = "mounted"
    /\ lastOutcome = "failed" /\ lastApplied = 1 /\ ~isConnected /\ error # Null
    /\ fetches = {[n |-> 2, silent |-> TRUE]}

(***************************************************************************)
(* Claims about useGlobalInfrastructureMetrics, checked under SpecGlobal   *)
(***************************************************************************)

\* A step in which an aggregation cycle runs to its end.
GSettles == gLastApplied' # gLastApplied

\* Every request of the cycle that settles rejected or came back non-2xx.
AllSourcesFail(o) == \A src \in Sources : o[src] \in {"rejected", "http"}

\* C7: if every source of an aggregation cycle fails (each request rejects
\* or returns a non-2xx status), the hook surfaces a non-null error and the
\* per-tenant map keeps the values of the last successful cycle.
C7_AllFailKeepsRows ==
    [][(GSettles /\ AllSourcesFail(gLastOutcome'))
         => (gError' # Null /\ orgMetricsMap' = orgMetricsMap)]_vars

\* C8: when a new aggregation cycle starts before the previous one has
\* settled, the previous cycle publishes nothing: the step in which it ends
\* leaves the per-tenant map, error and lastUpdated as they were.
C8_SupersededPublishesNothing ==
    [][(GSettles /\ gLastApplied' < gStarted)
         => UNCHANGED <<orgMetricsMap, gError, gLastUpdated>>]_vars

\* The counters of a row that each source feeds (lines 677-759).
FedBy(src) ==
    CASE src = "alerts" -> {"alerts", "activeAlerts", "criticalAlerts"}
      [] src = "hosts" -> {"hosts", "enabledHosts"}
      [] src = "reports" -> {"reports"}
      [] src = "insights" -> {"insights"}
      [] OTHER -> {"veeamJobs", "veeamSuccess", "veeamFailed"}

\* The map of a cycle in which every source answers.
AllAnswer == [src \in Sources |-> "data"]
FullMap == computeMap(AllAnswer)

\* C13: when some but not all sources of a cycle fail, fetchAll runs to its
\* end, no error is surfaced, and the counters fed by the sources that
\* succeeded are what they would be had no source failed.
C13_PartialFailure ==
    [][(/\ GSettles
        /\ \E src \in Sources : gLastOutcome'[src] = "data"
        /\ \E src \in Sources : gLastOutcome'[src] # "data")
         => /\ gError' = Null
            /\ DOMAIN orgMetricsMap' = DOMAIN FullMap
            /\ \A src \in Sources : gLastOutcome'[src] = "data" =>
                  \A cid \in DOMAIN orgMetricsMap' : \A fld \in FedBy(src) :
                     orgMetricsMap'[cid][fld] = FullMap[cid][fld]]_vars

\* A cycle in which alerts answered and hosts was rejected has published the
\* alert counts of tenant 1 and no hosts.
C13_Witness ==
    /\ gLastApplied > 0
    /\ gLastOutcome["alerts"] = "data" /\ gLastOutcome["hosts"] = "rejected"
    /\ gError = Null
    /\ orgMetricsMap[1].alerts = 2 /\ orgMetricsMap[1].hosts = 0

Counters == DOMAIN zeroEntry

VeeamMoved == (fetches \ fetches') \cup (fetches' \ fetches)
OrgMoved == (oFetches \ oFetches') \cup (oFetches' \ oFetches)
GlobalMoved ==
    {c \in cycles' : gStarted' # gStarted /\ c.n = gStarted'}
    \cup {c \in cycles : GSettles /\ c.n = gLastApplied'}

\* C19: a timer-driven (silent) refresh never changes the loading flag,
\* neither when it starts nor when it settles, as success or as failure;
\* loading changes only in a step of the initial fetch or of a manual
\* refresh().
C19_SilentKeepsLoading ==
    [][/\ (\E f \in VeeamMoved : f.silent) => loading' = loading
       /\ (\E c \in GlobalMoved : c.silent) => gLoading' = gLoading
       /\ (\E f \in OrgMoved : f.silent) => oLoading' = oLoading
       /\ loading' # loading => \E f \in VeeamMoved : ~f.silent
       /\ gLoading' # gLoading => \E c \in GlobalMoved : ~c.silent
       /\ oLoading' # oLoading => \E f \in OrgMoved : ~f.silent]_vars

\* The tick's fetch has settled as failed while the initial fetch is still
\* waiting: loading is still true.
C19_Witness ==
    /\ fetches = {[n |-> 1, silent |-> FALSE]}
    /\ lastApplied = 2 /\ lastOutcome = "failed"
    /\ loading = TRUE

\* ---- Claims about usePaginatedList and the tabs ----
Settled == tabEffects = {}

\* C21: in every state usePaginatedList exposes once the effects of a render
\* have run, totalPages = max(1, ceil(totalItems / pageSize)) and
\* 1 <= currentPage <= totalPages, whatever setCurrentPage calls and changes
\* of the collection came before.
C21_PageInRange ==
    /\ totalPages = (IF totalItems = 0 THEN 1
                     ELSE (totalItems + PAGE_SIZE - 1) \div PAGE_SIZE)
    /\ Settled => (1 <= currentPage /\ currentPage <= totalPages)

\* C22: a call of setCurrentPage(n) with n outside [1, totalPages] leaves
\* currentPage as it was.
OutOfRange(n) == n < 1 \/ n > totalPages

C22_OutOfRangeIsNoOp ==
    [][\A n \in 0..MaxPageArg :
          (SetCurrentPage(n) /\ OutOfRange(n)) => currentPage' = currentPage]_vars

\* C23: after the collection changed and the effects ran, currentPage is
\* totalPages if the old page lies beyond the new totalPages, and the old
\* page otherwise.
C23_ClampOnShrink ==
    (Settled /\ tabLastOp.op = "setItems") =>
        currentPage = (IF tabLastOp.before > totalPages THEN totalPages
                       ELSE tabLastOp.before)

\* 17 items in pages of 8 make 3 pages; from page 3 a refresh left 5 items,
\* and the page is 1 of 1
C23_Witness ==
    /\ Settled
    /\ tabLastOp = [op |-> "setItems", arg |-> 5, before |-> 3]
    /\ tabFilter = "all"
    /\ totalPages = 1
    /\ currentPage = 1

C30_PageNonEmpty ==
    (dEffects = {} /\ dTotalItems > 0) => paginatedHosts > 0

\* ---- Claims about the summary of useGlobalInfrastructureMetrics ----
\* the sum of one row counter over a set of row indices
RECURSIVE SumRows(_, _)
SumRows(fld, idx) ==
    IF idx = {} THEN 0
    ELSE LET j == CHOOSE k \in idx : TRUE
         IN  orgRows[j][fld] + SumRows(fld, idx \ {j})

RowTotal(fld) == SumRows(fld, 1..Len(orgRows))

\* C25: after every cycle each counter of the summary is the sum of the
\* corresponding counter over the per-tenant rows of the same state
\* (disabledHosts: of hosts - enabledHosts), whatever earlier cycles counted.
C25_SummaryIsSumOfRows ==
    gLastApplied > 0 =>
        /\ summary.totalAlerts = RowTotal("alerts")
        /\ summary.activeAlerts = RowTotal("activeAlerts")
        /\ summary.criticalAlerts = RowTotal("criticalAlerts")
        /\ summary.totalHosts = RowTotal("hosts")
        /\ summary.enabledHosts = RowTotal("enabledHosts")
        /\ summary.disabledHosts = RowTotal("hosts") - RowTotal("enabledHosts")
        /\ summary.totalReports = RowTotal("reports")
        /\ summary.totalInsights = RowTotal("insights")
        /\ summary.totalVeeamJobs = RowTotal("veeamJobs")
        /\ summary.veeamSuccess = RowTotal("veeamSuccess")
        /\ summary.veeamFailed = RowTotal("veeamFailed")

\* the second cycle of a behaviour counted two tenants' alerts: 2 + 1, not
\* twice that
C25_Witness ==
    /\ gLastApplied = 2
    /\ gLastOutcome["alerts"] = "data"
    /\ \E i, j \in 1..Len(orgRows) : i # j /\ orgRows[i].alerts > 0 /\ orgRows[j].alerts > 0
    /\ summary.totalAlerts = 3

\* C26: every counter of every row and of the summary, the derived
\* disabledHosts included, is a non-negative integer in every state.
C26_CountersNonNegative ==
    /\ \A j \in 1..Len(orgRows) :
          /\ \A fld \in Counters : orgRows[j][fld] \in Nat
          /\ disabledOf(orgRows[j]) \in Nat
    /\ \A fld \in DOMAIN summary : summary[fld] \in Nat

\* a tenant with two hosts, one of them disabled, has been counted
C26_Witness ==
    /\ gLastApplied > 0
    /\ \E j \in 1..Len(orgRows) : orgRows[j].hosts = 2 /\ orgRows[j].enabledHosts = 1
    /\ summary.disabledHosts = 1

\* the records of the Veeam answer that belong to a tenant
MatchedOf(cid) ==
    LET recs == SourceData("veeam")
    IN  Cardinality({i \in 1..Len(recs) : getClientId(recs[i]) = cid})

\* C27: after a cycle whose Veeam source answered, for every tenant
\* veeamSuccess + veeamFailed is at most the number of its matched records.
C27_SuccessXorFailed ==
    (gLastApplied > 0 /\ gLastOutcome["veeam"] = "data") =>
        \A cid \in DOMAIN orgMetricsMap :
            orgMetricsMap[cid].veeamSuccess + orgMetricsMap[cid].veeamFailed
                <= MatchedOf(cid)

\* ---- Claims about loading and lastUpdated ----
\* C28: in useVeeamBackupAndReplication loading is true in every state in
\* which a non-silent call of fetchJobs (the initial fetch or a manual
\* refresh) has not settled yet.
C28_LoadingWhileInFlight ==
    (\E f \in fetches : ~f.silent) => loading = TRUE

\* Every request of the call that settles rejected, came back non-2xx, or
\* could not be decoded.
NoSourceDecoded(o) == \A src \in DOMAIN o : o[src] \in {"rejected", "http", "parsefail"}

\* C29: a cycle of useGlobalInfrastructureMetrics or of
\* useOrganizationVeeamMetrics in which no source was fetched and decoded
\* leaves lastUpdated as it was.
C29_AllFailKeepsLastUpdated ==
    [][/\ (GSettles /\ NoSourceDecoded(gLastOutcome')) => gLastUpdated' = gLastUpdated
       /\ (oFetches' # oFetches /\ oFetches' \subseteq oFetches
             /\ NoSourceDecoded(oLastOutcome')) => oLastUpdated' = oLastUpdated]_vars

====
